---- MODULE Spec2Model ----
(***************************************************************************)
(* Model of tools/analyze_dependencies.py of gitai: the scan of the Rust   *)
(* file tree (analyze_dependencies), the reference extractor               *)
(* (extract_imports), the module classifier (categorize_module), the       *)
(* category graph it aggregates, the order planner (print_migration_order) *)
(* and the JSON report written by main.                                    *)
(*                                                                         *)
(* Text is modelled by TLA+ strings, character by character: the Python    *)
(* operator `needle in text` is Contains, and the regular expression of    *)
(* extract_imports is the scanner FindAll.  A Python dict is a sequence of *)
(* entries [k, v] in insertion order, a Python set is a set.               *)
(***************************************************************************)
EXTENDS Integers, Sequences, FiniteSets, TLC

(***************************************************************************)
(* Bounds of the model.                                                    *)
(***************************************************************************)
\* the largest number of source files of one file tree
MaxFiles == 3
\* the largest number of segments of a path handed to the classifier alone
MaxDepth == 3

\* the longest text handed to extract_imports alone, in pieces
MaxPieces == 4

(***************************************************************************)
(* Strings.                                                                *)
(***************************************************************************)
CharAt(s, i) == SubSeq(s, i, i)

\* Python: needle in hay
Contains(hay, needle) ==
    \E i \in 0..(Len(hay) - Len(needle)) :
        SubSeq(hay, i + 1, i + Len(needle)) = needle

StartsWith(s, p) == Len(p) <= Len(s) /\ SubSeq(s, 1, Len(p)) = p

EndsWith(s, p) ==
    Len(p) <= Len(s) /\ SubSeq(s, Len(s) - Len(p) + 1, Len(s)) = p

RECURSIVE Join(_)
\* str(PurePath): the segments joined by "/"
Join(parts) ==
    IF parts = <<>> THEN ""
    ELSE IF Len(parts) = 1 THEN parts[1]
    ELSE parts[1] \o "/" \o Join(Tail(parts))

\* str() of an absolute path
AbsStr(parts) == "/" \o Join(parts)

(***************************************************************************)
(* Python dicts: sequences of entries [k |-> key, v |-> value], in         *)
(* insertion order.                                                        *)
(***************************************************************************)
DictKeys(d) == {d[i].k : i \in DOMAIN d}

HasKey(d, key) == \E i \in DOMAIN d : d[i].k = key

IndexOf(d, key) == CHOOSE i \in DOMAIN d : d[i].k = key

DictGet(d, key) == d[IndexOf(d, key)].v

\* d[key] of a defaultdict: the entry is created when missing
WithDefault(d, key, default) ==
    IF HasKey(d, key) THEN d ELSE Append(d, [k |-> key, v |-> default])

\* d[key] = value
DictSet(d, key, value) ==
    IF HasKey(d, key)
    THEN [d EXCEPT ![IndexOf(d, key)].v = value]
    ELSE Append(d, [k |-> key, v |-> value])

\* the mapping a dict denotes (Python's ==  on dicts ignores the order)
AsMap(d) == [key \in DictKeys(d) |-> DictGet(d, key)]

\* the mapping of a dict of dicts
AsMap2(d) == [key \in DictKeys(d) |-> AsMap(DictGet(d, key))]

(***************************************************************************)
(* extract_imports: the matches of                                         *)
(*   use\s+(crate::|gitai::|super::|self::)?([a-zA-Z0-9_:]+)               *)
(***************************************************************************)
WhiteSpace == {" ", "\t", "\n", "\r", "\f"}

IdentChars ==
    {"a", "b", "c", "d", "e", "f", "g", "h", "i", "j", "k", "l", "m",
     "n", "o", "p", "q", "r", "s", "t", "u", "v", "w", "x", "y", "z",
     "A", "B", "C", "D", "E", "F", "G", "H", "I", "J", "K", "L", "M",
     "N", "O", "P", "Q", "R", "S", "T", "U", "V", "W", "X", "Y", "Z",
     "0", "1", "2", "3", "4", "5", "6", "7", "8", "9", "_", ":"}

\* the alternatives of group 1, in the order the pattern tries them
Prefixes == <<"crate::", "gitai::", "super::", "self::">>

RECURSIVE RunEnd(_, _, _)
\* the first position from i on whose character is not in chars
RunEnd(s, i, chars) ==
    IF i > Len(s) \/ CharAt(s, i) \notin chars THEN i
    ELSE RunEnd(s, i + 1, chars)

\* group 1 of a match whose identifier run is run: the first alternative
\* that leaves group 2 at least one character, else nothing
MatchPrefix(run) ==
    LET ok == {n \in DOMAIN Prefixes :
                  StartsWith(run, Prefixes[n]) /\ Len(run) > Len(Prefixes[n])}
    IN IF ok = {} THEN ""
       ELSE Prefixes[CHOOSE n \in ok : \A m \in ok : n <= m]

\* the end (exclusive) of the pattern's match starting at i, 0 when none
MatchEnd(s, i) ==
    IF ~(i + 3 <= Len(s) /\ SubSeq(s, i, i + 2) = "use"
         /\ CharAt(s, i + 3) \in WhiteSpace)
    THEN 0
    ELSE LET j == RunEnd(s, i + 3, WhiteSpace)
             e == RunEnd(s, j, IdentChars)
         IN IF e > j THEN e ELSE 0

\* group 2 alone of the match starting at i, the prefix left out
MatchImport_NoPrefix(s, i) ==
    LET j == RunEnd(s, i + 3, WhiteSpace)
        run == SubSeq(s, j, RunEnd(s, j, IdentChars) - 1)
        prefix == MatchPrefix(run)
        module_path == SubSeq(run, Len(prefix) + 1, Len(run))
    IN module_path

\* f"{prefix}{module_path}" of the match starting at i
MatchImport(s, i) ==
    LET j == RunEnd(s, i + 3, WhiteSpace)
        run == SubSeq(s, j, RunEnd(s, j, IdentChars) - 1)
        prefix == MatchPrefix(run)
        module_path == SubSeq(run, Len(prefix) + 1, Len(run))
    IN prefix \o module_path

RECURSIVE FindAll(_, _)
\* re.finditer from position i: the matches left to right, not overlapping
FindAll(s, i) ==
    IF i > Len(s) THEN <<>>
    ELSE IF MatchEnd(s, i) > 0
         THEN <<MatchImport(s, i)>> \o FindAll(s, MatchEnd(s, i))
         ELSE FindAll(s, i + 1)

\* the imports of a file whose text is content
extract_imports(content) == FindAll(content, 1)

(***************************************************************************)
(* categorize_module                                                       *)
(***************************************************************************)
Categories ==
    {"types", "core-interfaces", "core-services", "analysis", "mcp", "cli",
     "metrics", "security", "core", "other"}

\* the ordered predicates: the substrings tested and the category returned
PathRules ==
    << [needles |-> {"/domain/entities/"}, category |-> "types"],
       [needles |-> {"/domain/interfaces/"}, category |-> "core-interfaces"],
       [needles |-> {"/domain/services/"}, category |-> "core-services"],
       [needles |-> {"/tree_sitter/"}, category |-> "analysis"],
       [needles |-> {"/mcp/"}, category |-> "mcp"],
       [needles |-> {"/cli/"}, category |-> "cli"],
       [needles |-> {"/metrics/"}, category |-> "metrics"],
       [needles |-> {"scan.rs", "security_"}, category |-> "security"],
       [needles |-> {"review", "analysis.rs"}, category |-> "analysis"],
       [needles |-> {"config.rs", "git.rs", "devops.rs", "context.rs"},
        category |-> "core"] >>

\* a variant without the final else: nothing is returned when no test holds
categorize_module_NoElse(path_str) ==
    IF Contains(path_str, "/domain/entities/") THEN "types"
    ELSE IF Contains(path_str, "/domain/interfaces/") THEN "core-interfaces"
    ELSE IF Contains(path_str, "/domain/services/") THEN "core-services"
    ELSE IF Contains(path_str, "/tree_sitter/") THEN "analysis"
    ELSE IF Contains(path_str, "/mcp/") THEN "mcp"
    ELSE IF Contains(path_str, "/cli/") THEN "cli"
    ELSE IF Contains(path_str, "/metrics/") THEN "metrics"
    ELSE IF Contains(path_str, "scan.rs") \/ Contains(path_str, "security_")
         THEN "security"
    ELSE IF Contains(path_str, "review") \/ Contains(path_str, "analysis.rs")
         THEN "analysis"
    ELSE IF \E core \in {"config.rs", "git.rs", "devops.rs", "context.rs"} :
                Contains(path_str, core)
         THEN "core"
    ELSE "None"

\* categorize_module(path), path_str = str(path)
categorize_module(path_str) ==
    IF Contains(path_str, "/domain/entities/") THEN "types"
    ELSE IF Contains(path_str, "/domain/interfaces/") THEN "core-interfaces"
    ELSE IF Contains(path_str, "/domain/services/") THEN "core-services"
    ELSE IF Contains(path_str, "/tree_sitter/") THEN "analysis"
    ELSE IF Contains(path_str, "/mcp/") THEN "mcp"
    ELSE IF Contains(path_str, "/cli/") THEN "cli"
    ELSE IF Contains(path_str, "/metrics/") THEN "metrics"
    ELSE IF Contains(path_str, "scan.rs") \/ Contains(path_str, "security_")
         THEN "security"
    ELSE IF Contains(path_str, "review") \/ Contains(path_str, "analysis.rs")
         THEN "analysis"
    ELSE IF \E core \in {"config.rs", "git.rs", "devops.rs", "context.rs"} :
                Contains(path_str, core)
         THEN "core"
    ELSE "other"

(***************************************************************************)
(* The aggregator's reference predicates (analyze_dependencies, the chain  *)
(* of if/elif on imp).  NoTarget: no branch is taken.                      *)
(***************************************************************************)
NoTarget == "-"

\* a variant with a final else that files the reference under other
dep_category_OtherFallback(imp) ==
    IF Contains(imp, "domain::entities") \/ Contains(imp, "gitai_types")
    THEN "types"
    ELSE IF Contains(imp, "domain::interfaces")
            \/ Contains(imp, "domain::services")
         THEN "core"
    ELSE IF Contains(imp, "tree_sitter") THEN "analysis"
    ELSE IF Contains(imp, "mcp") THEN "mcp"
    ELSE IF Contains(imp, "scan") \/ Contains(imp, "security") THEN "security"
    ELSE IF Contains(imp, "metrics") THEN "metrics"
    ELSE IF Contains(imp, "cli") THEN "cli"
    ELSE "other"

\* the target category of imp, NoTarget when no branch is taken
dep_category(imp) ==
    IF Contains(imp, "domain::entities") \/ Contains(imp, "gitai_types")
    THEN "types"
    ELSE IF Contains(imp, "domain::interfaces")
            \/ Contains(imp, "domain::services")
         THEN "core"
    ELSE IF Contains(imp, "tree_sitter") THEN "analysis"
    ELSE IF Contains(imp, "mcp") THEN "mcp"
    ELSE IF Contains(imp, "scan") \/ Contains(imp, "security") THEN "security"
    ELSE IF Contains(imp, "metrics") THEN "metrics"
    ELSE IF Contains(imp, "cli") THEN "cli"
    ELSE NoTarget

\* the ordered predicates on imp: the substrings tested and the target
RefRules ==
    << [needles |-> {"domain::entities", "gitai_types"}, target |-> "types"],
       [needles |-> {"domain::interfaces", "domain::services"},
        target |-> "core"],
       [needles |-> {"tree_sitter"}, target |-> "analysis"],
       [needles |-> {"mcp"}, target |-> "mcp"],
       [needles |-> {"scan", "security"}, target |-> "security"],
       [needles |-> {"metrics"}, target |-> "metrics"],
       [needles |-> {"cli"}, target |-> "cli"] >>

\* the predicates of RefRules that hold of imp
RuleHits(imp) ==
    {n \in DOMAIN RefRules :
        \E needle \in RefRules[n].needles : Contains(imp, needle)}

(***************************************************************************)
(* The file trees the scan is run on.  FileTable lists the source files a  *)
(* tree is drawn from: the segments of the path below the scan root and    *)
(* the text of the file.                                                   *)
(***************************************************************************)
FileTable ==
    << [parts |-> <<"a", "domain", "entities", "review.rs">>,
        content |-> "use crate::mcp::Server;"],
       [parts |-> <<"domain", "entities", "user.rs">>,
        content |-> "use crate::domain::entities::Foo;"],
       [parts |-> <<"a", "mcp", "server.rs">>,
        content |-> "use crate::mcp::Server;\nuse crate::mcp::Server;\nuse std::fmt;"],
       [parts |-> <<"a", "mcp", "client.rs">>,
        content |-> "use crate::mcp::Server;\nuse self::mcp_io;\nuse super::cli;"],
       [parts |-> <<"main.rs">>,
        content |-> "// house rules\nuse std::fmt;\nuse serde::Serialize;"],
       [parts |-> <<"target", "debug", "gen.rs">>,
        content |-> "use crate::metrics::X;"],
       [parts |-> <<"a", "cli", "scan.rs">>,
        content |-> "use crate::mcp::Server;\nuse gitai_types::A;"],
       [parts |-> <<"a", "domain", "services", "svc.rs">>,
        content |-> "use crate::domain::interfaces::Repo;\nuse crate::scan::metrics;"] >>

FileIds == DOMAIN FileTable

\* the scan roots: the segments of the absolute path of the root directory
RootPaths == {<<"repo", "src">>, <<"ci", "target", "src">>}

\* the absolute path rglob yields for file f below root
RustFile(root, f) == root \o FileTable[f].parts

\* Path.relative_to
relative_to(path, root) == SubSeq(path, Len(root) + 1, Len(path))

\* whether the pattern '*.rs' of rglob matches the name of file f
MatchesPattern(f) ==
    EndsWith(FileTable[f].parts[Len(FileTable[f].parts)], ".rs")

\* the test of line 60 on str(rust_file)
IsExcluded(root, f) ==
    \/ Contains(AbsStr(RustFile(root, f)), "target")
    \/ Contains(AbsStr(RustFile(root, f)), "src.backup")

\* str(relative_path)
RelStr(root, f) == Join(relative_to(RustFile(root, f), root))

(***************************************************************************)
(* The values the scan computes for each file of FileTable, computed once. *)
(***************************************************************************)
ImportsOf == [f \in FileIds |-> extract_imports(FileTable[f].content)]

AllImports == UNION {{ImportsOf[f][i] : i \in DOMAIN ImportsOf[f]} : f \in FileIds}

TargetOf == [imp \in AllImports |-> dep_category(imp)]

RuleHitsTab == [imp \in AllImports |-> RuleHits(imp)]

MatchesTab == [f \in FileIds |-> MatchesPattern(f)]

\* Path(root).rglob('*.rs') over a tree: the files whose name ends in .rs
Rglob(files) == {f \in files : MatchesTab[f]}

\* str(rust_file)
RustFileStr == [root \in RootPaths, f \in FileIds |-> AbsStr(RustFile(root, f))]

ExcludedTab == [root \in RootPaths, f \in FileIds |-> IsExcluded(root, f)]

RelStrTab == [root \in RootPaths, f \in FileIds |-> RelStr(root, f)]

CategoryTab ==
    [root \in RootPaths, f \in FileIds |-> categorize_module(RelStrTab[root, f])]

(***************************************************************************)
(* The aggregation of one import: dependencies[category][target].add(imp)  *)
(***************************************************************************)
\* a variant that assigns {imp} to the edge instead of adding imp to it
AddRef_Overwrite(deps, category, target, imp) ==
    LET d1 == WithDefault(deps, category, <<>>)
        i == IndexOf(d1, category)
        in1 == WithDefault(d1[i].v, target, {})
        j == IndexOf(in1, target)
    IN [d1 EXCEPT ![i].v = [in1 EXCEPT ![j].v = {imp}]]

\* dependencies[category][target].add(imp)
AddRef(deps, category, target, imp) ==
    LET d1 == WithDefault(deps, category, <<>>)
        i == IndexOf(d1, category)
        in1 == WithDefault(d1[i].v, target, {})
        j == IndexOf(in1, target)
    IN [d1 EXCEPT ![i].v = [in1 EXCEPT ![j].v = @ \cup {imp}]]

RECURSIVE AddUnderRules(_, _, _, _)
\* imp added under the target of every rule from n on that holds of it
AddUnderRules(deps, category, imp, n) ==
    IF n > Len(RefRules) THEN deps
    ELSE AddUnderRules(IF n \in RuleHitsTab[imp]
                       THEN AddRef(deps, category, RefRules[n].target, imp)
                       ELSE deps,
                       category, imp, n + 1)

\* a variant whose tests are a row of ifs instead of one if/elif chain
AddImport_EveryMatch(deps, category, imp) ==
    AddUnderRules(deps, category, imp, 1)

\* one iteration of the loop over imports
AddImport(deps, category, imp) ==
    IF TargetOf[imp] = NoTarget THEN deps
    ELSE AddRef(deps, category, TargetOf[imp], imp)

\* a variant that leaves the loop after the first import
AddImports_FirstOnly(deps, category, imports) ==
    IF imports = <<>> THEN deps
    ELSE AddImport(deps, category, Head(imports))

RECURSIVE AddImports(_, _, _)
\* for imp in imports
AddImports(deps, category, imports) ==
    IF imports = <<>> THEN deps
    ELSE AddImports(AddImport(deps, category, Head(imports)), category,
                    Tail(imports))

(***************************************************************************)
(* One iteration of the loop of analyze_dependencies on file f.            *)
(* st = [dependencies, module_categories, warnings]; readable: whether     *)
(* open() and read() of the file succeed.                                  *)
(***************************************************************************)
\* a variant whose except clause prints nothing
LoopBody_SilentExcept(st, root, f, readable) ==
    IF ExcludedTab[root, f] THEN st
    ELSE LET category == CategoryTab[root, f]
             cats == DictSet(st.module_categories, RelStrTab[root, f], category)
         IN IF readable
            THEN [st EXCEPT !.module_categories = cats,
                            !.dependencies =
                                AddImports(@, category, ImportsOf[f])]
            ELSE [st EXCEPT !.module_categories = cats]

\* a variant whose except clause discards the graph accumulated so far
LoopBody_ResetOnError(st, root, f, readable) ==
    IF ExcludedTab[root, f] THEN st
    ELSE LET category == CategoryTab[root, f]
             cats == DictSet(st.module_categories, RelStrTab[root, f], category)
         IN IF readable
            THEN [st EXCEPT !.module_categories = cats,
                            !.dependencies =
                                AddImports(@, category, ImportsOf[f])]
            ELSE [st EXCEPT !.module_categories = cats,
                            !.dependencies = <<>>,
                            !.warnings = Append(@, RustFileStr[root, f])]

\* a variant that records the category inside the try block, behind the read
LoopBody_CategorizeAfterRead(st, root, f, readable) ==
    IF ExcludedTab[root, f] THEN st
    ELSE LET category == CategoryTab[root, f]
             cats == DictSet(st.module_categories, RelStrTab[root, f], category)
         IN IF readable
            THEN [st EXCEPT !.module_categories = cats,
                            !.dependencies =
                                AddImports(@, category, ImportsOf[f])]
            ELSE [st EXCEPT !.warnings = Append(@, RustFileStr[root, f])]

\* the loop body as written: lines 60-86
LoopBody(st, root, f, readable) ==
    IF ExcludedTab[root, f] THEN st
    ELSE LET category == CategoryTab[root, f]
             cats == DictSet(st.module_categories, RelStrTab[root, f], category)
         IN IF readable
            THEN [st EXCEPT !.module_categories = cats,
                            !.dependencies =
                                AddImports(@, category, ImportsOf[f])]
            ELSE [st EXCEPT !.module_categories = cats,
                            !.warnings =
                                Append(@, RustFileStr[root, f])]

(***************************************************************************)
(* print_migration_order                                                   *)
(***************************************************************************)
RECURSIVE FlatEdges(_)
\* the (source, target, references) triples in the order the two loops of
\* lines 96-97 meet them
FlatEdges(deps) ==
    IF deps = <<>> THEN <<>>
    ELSE [j \in DOMAIN Head(deps).v |->
             [source |-> Head(deps).k, target |-> Head(deps).v[j].k,
              refs |-> Head(deps).v[j].v]]
         \o FlatEdges(Tail(deps))

RECURSIVE CountIncoming(_, _)
\* incoming_deps, a defaultdict(int), after the first n edges:
\* incoming_deps[target] += len(targets[target]); the running dict and the
\* edge are bound as values, so that each is computed once
CountIncoming(edges, n) ==
    IF n = 0 THEN <<>>
    ELSE CHOOSE d \in
             {DictSet(incoming, e.target,
                      (IF HasKey(incoming, e.target)
                       THEN DictGet(incoming, e.target) ELSE 0)
                      + Cardinality(e.refs)) :
                 incoming \in {CountIncoming(edges, n - 1)}, e \in {edges[n]}} :
             TRUE

IncomingDeps(deps) == CountIncoming(FlatEdges(deps), Len(FlatEdges(deps)))

\* item placed behind every entry whose count is not larger (sorted is stable)
InsertSorted(sorted, item) ==
    LET n == Cardinality({i \in DOMAIN sorted : sorted[i].v <= item.v})
    IN SubSeq(sorted, 1, n) \o <<item>> \o SubSeq(sorted, n + 1, Len(sorted))

RECURSIVE SortByCount(_, _)
\* sorted(incoming_deps.items(), key=lambda x: x[1]), built from the first n
\* items
SortByCount(items, n) ==
    IF n = 0 THEN <<>>
    ELSE CHOOSE s \in
             {InsertSorted(sorted, item) :
                 sorted \in {SortByCount(items, n - 1)}, item \in {items[n]}} :
             TRUE

\* the eight lines printed, in the order printed
PrintedOrder ==
    <<"gitai-types", "gitai-core", "gitai-analysis", "gitai-security",
      "gitai-metrics", "gitai-mcp", "gitai-cli", "gitai-bin">>

(***************************************************************************)
(* main: the document written to dependency_analysis.json                  *)
(***************************************************************************)
NoOutput == [written |-> FALSE]

RECURSIVE ListsOf(_)
\* list(v2) of a set: its elements once each, in an order Python chooses
ListsOf(S) ==
    IF S = {} THEN {<<>>}
    ELSE UNION {{<<x>> \o l : l \in ListsOf(S \ {x})} : x \in S}

RECURSIVE InnerLists(_)
\* {k2: list(v2) for k2, v2 in v.items()}
InnerLists(inner) ==
    IF inner = <<>> THEN {<<>>}
    ELSE {<<[k |-> Head(inner).k, v |-> l]>> \o rest :
             l \in ListsOf(Head(inner).v), rest \in InnerLists(Tail(inner))}

RECURSIVE OuterLists(_)
\* {k: {...} for k, v in dependencies.items()}
OuterLists(deps) ==
    IF deps = <<>> THEN {<<>>}
    ELSE {<<[k |-> Head(deps).k, v |-> i]>> \o rest :
             i \in InnerLists(Head(deps).v), rest \in OuterLists(Tail(deps))}

(***************************************************************************)
(* State.                                                                  *)
(***************************************************************************)
VARIABLES
    root,               \* the scan root, root_path / "src"
    rootValid,          \* whether the root exists and is a directory
    tree,               \* the files below the root
    unreadable,         \* the files whose open() or decoding fails
    pending,            \* the files rglob has not yielded yet
    dependencies,       \* category -> category -> set of imports
    module_categories,  \* str(relative_path) -> category
    warnings,           \* the "Error processing" lines printed
    incoming_deps,      \* print_migration_order: target -> count
    ordered,            \* print_migration_order: the sorted items
    printed,            \* the migration order printed
    output,             \* the JSON document written
    pc,                 \* where main is
    arg,                \* the classifier run alone: the path's segments
    ret                 \* the classifier run alone: the category returned

vars ==
    <<root, rootValid, tree, unreadable, pending, dependencies,
      module_categories, warnings, incoming_deps, ordered, printed, output,
      pc, arg, ret>>

scanState ==
    [dependencies |-> dependencies, module_categories |-> module_categories,
     warnings |-> warnings]

Trees == {t \in SUBSET FileIds : Cardinality(t) <= MaxFiles}

\* main up to the call of analyze_dependencies: nothing is accumulated.  An
\* invalid root (missing, or not a directory) makes rglob yield nothing.
Init ==
    /\ root \in RootPaths
    /\ rootValid \in BOOLEAN
    /\ tree \in Trees
    /\ rootValid = FALSE => tree = {}
    /\ unreadable \in SUBSET tree
    /\ pending = Rglob(tree)
    /\ dependencies = <<>>
    /\ module_categories = <<>>
    /\ warnings = <<>>
    /\ incoming_deps = <<>>
    /\ ordered = <<>>
    /\ printed = <<>>
    /\ output = NoOutput
    /\ pc = "scan"
    /\ arg = <<>>
    /\ ret = ""

\* one iteration of the loop of analyze_dependencies; rglob yields the files
\* in an order of its choosing
Visit(f) ==
    /\ pc = "scan"
    /\ f \in pending
    /\ pending' = pending \ {f}
    /\ LET st == LoopBody(scanState, root, f, f \notin unreadable)
       IN /\ dependencies' = st.dependencies
          /\ module_categories' = st.module_categories
          /\ warnings' = st.warnings
    /\ UNCHANGED <<root, rootValid, tree, unreadable, incoming_deps, ordered,
                   printed, output, pc, arg, ret>>

\* the loop ends and analyze_dependencies returns to main
FinishScan ==
    /\ pc = "scan"
    /\ pending = {}
    /\ pc' = "plan"
    /\ UNCHANGED <<root, rootValid, tree, unreadable, pending, dependencies,
                   module_categories, warnings, incoming_deps, ordered,
                   printed, output, arg, ret>>

\* a variant that orders topologically and gives up on a graph in which two
\* categories depend on each other
print_migration_order_RejectCycles ==
    /\ pc = "plan"
    /\ ~\E a, b \in DictKeys(dependencies) :
            /\ a # b
            /\ HasKey(DictGet(dependencies, a), b)
            /\ HasKey(DictGet(dependencies, b), a)
    /\ incoming_deps' = IncomingDeps(dependencies)
    /\ ordered' = SortByCount(incoming_deps', Len(incoming_deps'))
    /\ printed' = PrintedOrder
    /\ pc' = "save"
    /\ UNCHANGED <<root, rootValid, tree, unreadable, pending, dependencies,
                   module_categories, warnings, output, arg, ret>>

print_migration_order ==
    /\ pc = "plan"
    /\ incoming_deps' = IncomingDeps(dependencies)
    /\ ordered' = SortByCount(incoming_deps', Len(incoming_deps'))
    /\ printed' = PrintedOrder
    /\ pc' = "save"
    /\ UNCHANGED <<root, rootValid, tree, unreadable, pending, dependencies,
                   module_categories, warnings, output, arg, ret>>

\* main, lines 144-151
SaveJson ==
    /\ pc = "save"
    /\ \E lists \in OuterLists(dependencies) :
           output' = [written |-> TRUE,
                      module_categories |-> module_categories,
                      dependencies |-> lists]
    /\ pc' = "done"
    /\ UNCHANGED <<root, rootValid, tree, unreadable, pending, dependencies,
                   module_categories, warnings, incoming_deps, ordered,
                   printed, arg, ret>>

Next ==
    \/ \E f \in pending : Visit(f)
    \/ FinishScan
    \/ print_migration_order
    \/ SaveJson

Spec == Init /\ [][Next]_vars

(***************************************************************************)
(* The classifier run alone on a path: categorize_module(str(path)).       *)
(***************************************************************************)
Segments ==
    {"a", "domain", "entities", "mcp", "cli", "review.rs", "scan.rs",
     "user.rs"}

\* the paths classified: up to MaxDepth segments, the empty path included
PathInputs == UNION {[1..n -> Segments] : n \in 0..MaxDepth}

InitClassify ==
    /\ arg \in PathInputs
    /\ ret = ""
    /\ pc = "classify"
    /\ root = <<>>
    /\ rootValid = TRUE
    /\ tree = {}
    /\ unreadable = {}
    /\ pending = {}
    /\ dependencies = <<>>
    /\ module_categories = <<>>
    /\ warnings = <<>>
    /\ incoming_deps = <<>>
    /\ ordered = <<>>
    /\ printed = <<>>
    /\ output = NoOutput

Classify ==
    /\ pc = "classify"
    /\ ret' = categorize_module(Join(arg))
    /\ pc' = "classified"
    /\ UNCHANGED <<root, rootValid, tree, unreadable, pending, dependencies,
                   module_categories, warnings, incoming_deps, ordered,
                   printed, output, arg>>

NextClassify == Classify

SpecClassify == InitClassify /\ [][NextClassify]_vars

(***************************************************************************)
(* The extractor run alone on a text: extract_imports(content).            *)
(***************************************************************************)
Pieces ==
    {"use ", "\n", "crate::", "Foo;", "crate::domain::entities::Foo"}

\* the texts read: up to MaxPieces pieces, the empty text included
TextInputs == UNION {[1..n -> Pieces] : n \in 0..MaxPieces}

RECURSIVE Concat(_)
\* the content of a file made of the pieces
Concat(pieces) ==
    IF pieces = <<>> THEN "" ELSE Head(pieces) \o Concat(Tail(pieces))

InitExtract ==
    /\ arg \in TextInputs
    /\ ret = <<>>
    /\ pc = "extract"
    /\ root = <<>>
    /\ rootValid = TRUE
    /\ tree = {}
    /\ unreadable = {}
    /\ pending = {}
    /\ dependencies = <<>>
    /\ module_categories = <<>>
    /\ warnings = <<>>
    /\ incoming_deps = <<>>
    /\ ordered = <<>>
    /\ printed = <<>>
    /\ output = NoOutput

Extract ==
    /\ pc = "extract"
    /\ ret' = extract_imports(Concat(arg))
    /\ pc' = "extracted"
    /\ UNCHANGED <<root, rootValid, tree, unreadable, pending, dependencies,
                   module_categories, warnings, incoming_deps, ordered,
                   printed, output, arg>>

NextExtract == Extract

SpecExtract == InitExtract /\ [][NextExtract]_vars

(***************************************************************************)
(* Definitions the properties are stated with.                             *)
(***************************************************************************)
\* the files the loop has been through
Visited == Rglob(tree) \ pending

\* the visited files that reached the try block and were read
Contributing ==
    {f \in Visited : f \notin unreadable /\ ~ExcludedTab[root, f]}

\* the visited files whose reading failed
Failing == {f \in Visited : f \in unreadable /\ ~ExcludedTab[root, f]}

ImportSet(f) == {ImportsOf[f][i] : i \in DOMAIN ImportsOf[f]}

ImportSetTab == [f \in FileIds |-> ImportSet(f)]

\* the substrings the aggregator looks for in a reference
RefNeedles ==
    {"domain::entities", "gitai_types", "domain::interfaces",
     "domain::services", "tree_sitter", "mcp", "scan", "security", "metrics",
     "cli"}

Unclassifiable ==
    [imp \in AllImports |-> \A n \in RefNeedles : ~Contains(imp, n)]

\* the references of the edge source -> target, {} when there is none
Edge(deps, source, target) ==
    UNION {UNION {deps[i].v[j].v :
                     j \in {j \in DOMAIN deps[i].v : deps[i].v[j].k = target}} :
              i \in {i \in DOMAIN deps : deps[i].k = source}}

Sources(deps) == DictKeys(deps)

Targets(deps) == UNION {DictKeys(deps[i].v) : i \in DOMAIN deps}

\* no key occurs twice in a dict
UniqueKeys(d) == \A i, j \in DOMAIN d : d[i].k = d[j].k => i = j

UniqueItems(l) == \A i, j \in DOMAIN l : l[i] = l[j] => i = j

\* the distinct references the files of read hand to source -> target
ContributedBy(read, source, target) ==
    {r \in UNION {ImportSetTab[f] :
                     f \in {g \in read : CategoryTab[root, g] = source}} :
        TargetOf[r] = target}

EmptyScan == [dependencies |-> <<>>, module_categories |-> <<>>, warnings |-> <<>>]

RECURSIVE ScanFold(_, _, _, _)
\* the loop of analyze_dependencies over the files in the order given
ScanFold(st, r, order, unread) ==
    IF order = <<>> THEN st
    ELSE ScanFold(LoopBody(st, r, Head(order), Head(order) \notin unread), r,
                  Tail(order), unread)

\* the category a printed crate name stands for
CrateCategory(label) == SubSeq(label, Len("gitai-") + 1, Len(label))

MigrationOrder == [i \in DOMAIN printed |-> CrateCategory(printed[i])]

(***************************************************************************)
(* Properties.                                                             *)
(***************************************************************************)

\* C1: when main is done, the graph (as a mapping), the path -> category
\* mapping and the migration order printed are those the scan yields for
\* every order in which rglob can hand out the files of the tree, the
\* unreadable ones included.
C1_OrderIndependent ==
    pc = "done" =>
        \A order \in ListsOf(Rglob(tree)) :
            LET st == ScanFold(EmptyScan, root, order, unreadable)
            IN /\ AsMap2(st.dependencies) = AsMap2(dependencies)
               /\ AsMap(st.module_categories) = AsMap(module_categories)
               /\ PrintedOrder = printed

\* a finished run over three visited files, one of them unreadable, whose
\* graph has two source categories
C1_Witness ==
    /\ pc = "done"
    /\ Cardinality(Contributing) = 2
    /\ Cardinality(Failing) = 1
    /\ Cardinality(Sources(dependencies)) = 2

\* what a step that visits a file whose reading fails does
C2_Step ==
    \A f \in pending :
        (pending' = pending \ {f} /\ f \in unreadable /\ ~ExcludedTab[root, f])
        => /\ pc' = "scan"
           /\ dependencies' = dependencies
           /\ warnings' = Append(warnings, RustFileStr[root, f])
           /\ HasKey(module_categories', RelStrTab[root, f])

\* what holds of the files read and of the files that failed
C2_State ==
    LET read == Contributing
        failed == Failing
        edges == FlatEdges(dependencies)
    IN /\ \A f \in read :
              /\ HasKey(module_categories, RelStrTab[root, f])
              /\ \A r \in ImportSetTab[f] :
                     ~Unclassifiable[r]
                     => r \in Edge(dependencies, CategoryTab[root, f],
                                   TargetOf[r])
       /\ \A n \in DOMAIN edges :
              \A r \in edges[n].refs :
                  \E f \in read :
                      /\ CategoryTab[root, f] = edges[n].source
                      /\ r \in ImportSetTab[f]
       /\ \A f \in Rglob(tree) :
              Cardinality({i \in DOMAIN warnings :
                              warnings[i] = RustFileStr[root, f]})
              = IF f \in failed THEN 1 ELSE 0
       /\ Len(warnings) = Cardinality(failed)

\* C2: a file whose reading fails leaves the graph as it was, is recorded by
\* exactly one warning and does not end the scan; every file that is read
\* is categorized and has its classified references in the graph, and every
\* reference of the graph comes from a file that was read.
C2_PartialFailure == []C2_State /\ [][C2_Step]_vars

\* a finished run in which one file failed and two others were read and
\* both have references in the graph
C2_Witness ==
    /\ pc = "done"
    /\ Cardinality(Failing) = 1
    /\ Len(warnings) = 1
    /\ Cardinality(Contributing) = 2
    /\ \A f \in Contributing : \E r \in ImportSetTab[f] : ~Unclassifiable[r]
    /\ \A f \in Failing : ImportSetTab[f] # {}

\* C3: with a root that does not exist or is not a directory the run never
\* gets to plan an order, to write the document or to end normally.
C3_InvalidRootFailsFast ==
    ~rootValid => pc \notin {"plan", "save", "done"} /\ output = NoOutput

\* C4: the classifier returns a category of the taxonomy for every path, and
\* returns other exactly when the path contains none of the substrings of
\* the ordered predicates.
C4_ClassifierTotal ==
    pc = "classified" =>
        /\ ret \in Categories
        /\ ret = "other" <=>
               \A n \in DOMAIN PathRules :
                   \A needle \in PathRules[n].needles :
                       ~Contains(Join(arg), needle)

\* the empty path was classified, as other
C4_Witness == pc = "classified" /\ arg = <<>> /\ ret = "other"

\* a directory domain immediately followed by a directory entities
HasDomainEntities(parts) ==
    \E i \in 1..(Len(parts) - 2) :
        parts[i] = "domain" /\ parts[i + 1] = "entities"

\* the category of the first rule of PathRules that matches, else other
FirstMatch(path_str) ==
    LET hit == {n \in DOMAIN PathRules :
                   \E needle \in PathRules[n].needles :
                       Contains(path_str, needle)}
    IN IF hit = {} THEN "other"
       ELSE PathRules[CHOOSE n \in hit : \A m \in hit : n <= m].category

\* C5: a relative path with a directory domain followed by a directory
\* entities, at any depth, is classified types; the result is always the
\* category of the first matching predicate.
C5_DomainEntitiesIsTypes ==
    pc = "classified" =>
        /\ HasDomainEntities(arg) => ret = "types"
        /\ ret = FirstMatch(Join(arg))

\* what a step that visits a file does to the graph when none of the file's
\* references is classifiable
C6_Step ==
    \A f \in pending :
        (pending' = pending \ {f} /\ \A r \in ImportSetTab[f] : Unclassifiable[r])
        => dependencies' = dependencies

\* no reference of the graph is unclassifiable and other is no target
C6_State ==
    /\ "other" \notin Targets(dependencies)
    /\ \A s \in Sources(dependencies), t \in Targets(dependencies) :
           \A r \in Edge(dependencies, s, t) : ~Unclassifiable[r]

\* C6: a reference that matches no reference predicate is in no edge, other
\* is never a target category, and a file whose references are all
\* unclassifiable leaves the graph as it was.
C6_UnclassifiedDropped == []C6_State /\ [][C6_Step]_vars

\* a file with references, all unclassifiable, was read; the graph holds
\* edges of other files and no entry for this file's category
C6_Witness ==
    \E f \in Contributing :
        /\ ImportSetTab[f] # {}
        /\ \A r \in ImportSetTab[f] : Unclassifiable[r]
        /\ dependencies # <<>>
        /\ ~HasKey(dependencies, CategoryTab[root, f])

\* the number of references to target in the texts of the files of category
\* source read so far, repetitions counted
Occurrences(source, target) ==
    LET occ == {<<f, i>> \in Contributing \X (1..Cardinality(AllImports)) :
                   /\ i \in DOMAIN ImportsOf[f]
                   /\ CategoryTab[root, f] = source
                   /\ TargetOf[ImportsOf[f][i]] = target}
    IN Cardinality(occ)

\* C7: in the graph and in the document written, a source category has one
\* entry, a target below it has one entry, and the references of an edge
\* are the distinct references contributed, each once.
C7_SetSemantics ==
    LET read == Contributing
    IN /\ UniqueKeys(dependencies)
       /\ \A i \in DOMAIN dependencies :
              /\ UniqueKeys(dependencies[i].v)
              /\ \A j \in DOMAIN dependencies[i].v :
                     Cardinality(dependencies[i].v[j].v)
                     = Cardinality(ContributedBy(read, dependencies[i].k,
                                                 dependencies[i].v[j].k))
       /\ pc = "done" =>
              /\ UniqueKeys(output.dependencies)
              /\ \A i \in DOMAIN output.dependencies :
                     /\ UniqueKeys(output.dependencies[i].v)
                     /\ \A j \in DOMAIN output.dependencies[i].v :
                            LET l == output.dependencies[i].v[j].v
                            IN /\ UniqueItems(l)
                               /\ Len(l) = Cardinality(
                                      ContributedBy(read,
                                          output.dependencies[i].k,
                                          output.dependencies[i].v[j].k))

\* two files of one category were read that share a reference; the edge
\* written holds fewer references than the files' texts hold occurrences
C7_Witness ==
    /\ pc = "done"
    /\ \E f, g \in Contributing :
           /\ f # g
           /\ CategoryTab[root, f] = CategoryTab[root, g]
           /\ \E r \in ImportSetTab[f] \cap ImportSetTab[g] :
                  LET s == CategoryTab[root, f]
                      t == TargetOf[r]
                      l == DictGet(DictGet(output.dependencies, s), t)
                  IN /\ t # NoTarget
                     /\ \E i \in DOMAIN l : l[i] = r
                     /\ Len(l) < Occurrences(s, t)

\* C8: the migration order holds every source and every target of the
\* graph and every category of the taxonomy, each once.
C8_OrderCoversGraph ==
    pc = "done" =>
        \A c \in Sources(dependencies) \cup Targets(dependencies) \cup Categories :
            Cardinality({i \in DOMAIN MigrationOrder : MigrationOrder[i] = c}) = 1

\* the distinct references that reach category c from other categories
CrossIncoming(deps, c) ==
    UNION {Edge(deps, s, c) : s \in Sources(deps) \ {c}}

\* C9: in the migration order a category with fewer distinct incoming
\* references from other categories stands before one with more.
C9_OrderSortedByIncoming ==
    pc = "done" =>
        \A i, j \in DOMAIN MigrationOrder :
            Cardinality(CrossIncoming(dependencies, MigrationOrder[i]))
            < Cardinality(CrossIncoming(dependencies, MigrationOrder[j]))
            => i < j

\* the count the planner holds for category c
IncomingCount(c) ==
    IF HasKey(incoming_deps, c) THEN DictGet(incoming_deps, c) ELSE 0

\* C10: a category whose incoming references all come from files of the
\* same category has an incoming count of zero.
C10_SelfEdgesExcluded ==
    pc \in {"save", "done"} =>
        \A c \in Targets(dependencies) :
            CrossIncoming(dependencies, c) = {} => IncomingCount(c) = 0

\* two different categories each of which has references to the other
CyclePairs(deps) ==
    {<<a, b>> \in Sources(deps) \X Sources(deps) :
        a # b /\ Edge(deps, a, b) # {} /\ Edge(deps, b, a) # {}}

\* the order printed names no category twice and names both categories of
\* every cycle of the graph
C11_Order ==
    pc \in {"save", "done"} =>
        /\ UniqueItems(MigrationOrder)
        /\ \A p \in CyclePairs(dependencies) :
               /\ \E i \in DOMAIN MigrationOrder : MigrationOrder[i] = p[1]
               /\ \E i \in DOMAIN MigrationOrder : MigrationOrder[i] = p[2]

\* C11: on every graph the scan hands over, cyclic ones included, the
\* planner can take its step to the end (nothing in the graph stops it or
\* makes it raise), and the order it has printed is total and names both
\* categories of every cycle.
C11_CycleTolerant ==
    /\ pc = "plan" => ENABLED print_migration_order
    /\ C11_Order

\* the planner has run on a graph with a cycle
C11_Witness == pc = "done" /\ CyclePairs(dependencies) # {}

(***************************************************************************)
(* The extractor, stated on the text.                                      *)
(***************************************************************************)
\* the positions of s where a module-reference construct is written: `use`,
\* whitespace, and an identifier character after the whitespace
ConstructStarts(s) ==
    {i \in 1..Len(s) :
        /\ i + 3 <= Len(s)
        /\ SubSeq(s, i, i + 2) = "use"
        /\ \E j \in (i + 4)..Len(s) :
               /\ CharAt(s, j) \in IdentChars
               /\ \A k \in (i + 3)..(j - 1) : CharAt(s, k) \in WhiteSpace}

\* where the identifier of the construct written at i starts
IdentStart(s, i) ==
    CHOOSE j \in (i + 4)..Len(s) :
        /\ CharAt(s, j) \in IdentChars
        /\ \A k \in (i + 3)..(j - 1) : CharAt(s, k) \in WhiteSpace

\* the position behind the last identifier character of the construct at i
ConstructEnd(s, i) ==
    CHOOSE e \in (IdentStart(s, i) + 1)..(Len(s) + 1) :
        /\ \A k \in IdentStart(s, i)..(e - 1) : CharAt(s, k) \in IdentChars
        /\ e = Len(s) + 1 \/ CharAt(s, e) \notin IdentChars

\* the textual matches: a construct counts unless it is written inside a
\* match further left
TextualMatches(s) ==
    CHOOSE S \in SUBSET ConstructStarts(s) :
        \A i \in ConstructStarts(s) :
            i \in S <=> ~\E j \in S : j < i /\ i < ConstructEnd(s, j)

\* C12: extract_imports returns one reference per textual match, in the
\* order of the text and with duplicates kept, each everything the match
\* writes behind the whitespace: the prefix (if any) followed by the
\* identifier; no construct gives the empty sequence, and
\* `use crate::domain::entities::Foo` alone gives that one reference.
C12_ExtractPerMatch ==
    pc = "extracted" =>
        LET s == Concat(arg)
            M == TextualMatches(s)
        IN /\ Len(ret) = Cardinality(M)
           /\ \A i \in M :
                  ret[Cardinality({j \in M : j < i}) + 1]
                      = SubSeq(s, IdentStart(s, i), ConstructEnd(s, i) - 1)
           /\ ConstructStarts(s) = {} => ret = <<>>
           /\ arg = <<"use ", "crate::domain::entities::Foo">>
                  => ret = <<"crate::domain::entities::Foo">>

\* a text with the same reference written twice has been extracted
C12_Witness ==
    /\ pc = "extracted"
    /\ Len(ret) = 2
    /\ ret[1] = ret[2]
(***************************************************************************)
(* The scan, stated on the paths.                                          *)
(***************************************************************************)
\* whether the name of some directory between the scan root and file f
\* contains one of the substrings of line 60
UnderExcludedDir(f) ==
    \E i \in 1..(Len(FileTable[f].parts) - 1) :
        \/ Contains(FileTable[f].parts[i], "target")
        \/ Contains(FileTable[f].parts[i], "src.backup")

UnderExcludedDirTab == [f \in FileIds |-> UnderExcludedDir(f)]

\* C13: once the scan is over, a source file of the tree is missing from the
\* categorization exactly if the name of a directory between the scan root
\* and the file contains target or src.backup.
C13_ExcludedByDirectoryName ==
    pc # "scan" =>
        \A f \in Rglob(tree) :
            ~HasKey(module_categories, RelStrTab[root, f])
                <=> UnderExcludedDirTab[f]

\* the files the loop has been through and has not skipped
Kept == {f \in Visited : ~ExcludedTab[root, f]}

\* C14: the path -> category mapping has one entry for every file the scan
\* has visited and not skipped, unreadable ones included, under the path
\* relative to the root and with categorize_module of that path as value,
\* and no other entry; the document written carries the same mapping.
C14_OneEntryPerVisitedFile ==
    LET kept == Kept
    IN /\ UniqueKeys(module_categories)
       /\ Len(module_categories) = Cardinality(kept)
       /\ DictKeys(module_categories) = {RelStrTab[root, f] : f \in kept}
       /\ \A f \in kept :
              DictGet(module_categories, RelStrTab[root, f])
                  = CategoryTab[root, f]
       /\ output.written => output.module_categories = module_categories

\* the document is written after a scan that met a file it could not read,
\* a file it read and a file it skipped
C14_Witness ==
    /\ pc = "done"
    /\ \E f \in Kept : f \in unreadable
    /\ \E f \in Kept : f \notin unreadable
    /\ \E f \in Rglob(tree) : ExcludedTab[root, f]

(***************************************************************************)
(* The graph, stated on the references.                                    *)
(***************************************************************************)
\* the (source, target, reference) triples of a graph
Triples(deps) ==
    UNION {UNION {{<<deps[i].k, deps[i].v[j].k, r>> : r \in deps[i].v[j].v} :
                     j \in DOMAIN deps[i].v} :
              i \in DOMAIN deps}

\* the target of the first rule of RefRules that holds of imp
FirstRule(imp) ==
    RefRules[CHOOSE n \in RuleHitsTab[imp] :
                 \A m \in RuleHitsTab[imp] : n <= m].target

\* C15: every reference of the graph stands under the target of the first
\* predicate, in the fixed order, that holds of its text; so a reference
\* string stands under one target only, whatever the source, and the
\* reference sets of two targets share no string.
C15_TargetByFirstPredicate ==
    LET T == Triples(dependencies)
    IN /\ \A t \in T :
              /\ RuleHitsTab[t[3]] # {}
              /\ t[2] = FirstRule(t[3])
       /\ \A t, u \in T : t[3] = u[3] => t[2] = u[2]

\* the graph written holds a reference of which two predicates hold, and a
\* reference that two source categories make
C15_Witness ==
    /\ pc = "done"
    /\ \E t \in Triples(dependencies) : Cardinality(RuleHitsTab[t[3]]) >= 2
    /\ \E t, u \in Triples(dependencies) : t[3] = u[3] /\ t[1] # u[1]

\* the triples the files of read make: the category of the file, the target
\* of the reference, the reference
ImageOf(read) ==
    UNION {{<<CategoryTab[root, f], FirstRule(r), r>> :
               r \in {x \in ImportSetTab[f] : RuleHitsTab[x] # {}}} :
              f \in read}

\* the graph is the image of the files read so far, and holds no source
\* without a target and no edge without a reference
C16_State ==
    /\ Triples(dependencies) = ImageOf(Contributing)
    /\ UniqueKeys(dependencies)
    /\ \A i \in DOMAIN dependencies :
           /\ dependencies[i].v # <<>>
           /\ UniqueKeys(dependencies[i].v)
           /\ \A j \in DOMAIN dependencies[i].v : dependencies[i].v[j].v # {}

\* no step takes a reference out of the graph
C16_Step == Triples(dependencies) \subseteq Triples(dependencies')

\* C16: the graph is exactly the image of the visited files that could be
\* read: r is in edge (s, t) exactly if such a file of category s has r
\* among its extracted references and t is the target of r; every source
\* has a target, every edge a reference, and the reference sets only grow.
C16_GraphIsImage == []C16_State /\ [][C16_Step]_vars

\* the graph written comes from two files read, one of them with several
\* classified references, next to a file with classified references that
\* could not be read
C16_Witness ==
    /\ pc = "done"
    /\ Cardinality(Contributing) >= 2
    /\ Cardinality(Sources(dependencies)) >= 2
    /\ \E f \in Contributing :
           Cardinality({x \in ImportSetTab[f] : RuleHitsTab[x] # {}}) >= 2
    /\ \E f \in Failing : \E x \in ImportSetTab[f] : RuleHitsTab[x] # {}
====
